---------------------------- MODULE Spec2Model ----------------------------
(***************************************************************************)
(* Lagos security sentiment: bias correction, alert generation, the        *)
(* SQLite store and the analysis cycle of SentimentAnalyzer.               *)
(*                                                                         *)
(* Numbers.  Sentiment scores and confidences are Python floats; here they *)
(* are exact integers in thousandths (-0.525 is -525).  Calibration        *)
(* factors are in tenths (0.7 is 7, the 1.1 boost is 11).  Raw scores are  *)
(* drawn from multiples of 0.01, so every product below is an exact number *)
(* of thousandths.  A mean is kept as an exact fraction <<sum, count>> and *)
(* compared by cross multiplication; round(x, 3) is rounding of the exact  *)
(* fraction to thousandths, half to even.                                  *)
(***************************************************************************)
EXTENDS Integers, Sequences, FiniteSets, TLC

VARIABLES
    \* BiasCorrector.adjust_sentiment / get_correction_info: one call each
    raw_sentiment,      \* argument raw_sentiment
    source,             \* argument source
    adjustment_factor,  \* local of adjust_sentiment (<<>> before the call)
    baseline,           \* local of adjust_sentiment (<<>> before the call)
    adjusted,           \* return value of adjust_sentiment (<<>> before the call)
    correction_info,    \* return value of get_correction_info (<<>> before the call)
    \* AlertGenerator.generate_alerts: one call on a batch
    sentiment_data,     \* argument sentiment_data
    generated,          \* return value (<<>> before the call, <<alerts>> after)
    \* SentimentAnalyzer on its DatabaseManager
    now,                \* datetime.now(), in hours
    store,              \* rows of table sentiment_data, in rowid order
    alerts_table,       \* rows of table alerts, in rowid order
    pc,                 \* position of run_analysis_cycle
    results,            \* local results of run_analysis_cycle (<<>> outside a cycle)
    all_data,           \* local all_data of run_analysis_cycle
    alerts,             \* local alerts of run_analysis_cycle
    result,             \* the dict returned by the last run_analysis_cycle
    cycles,             \* number of cycles started
    trace,              \* the calls the running (or last) cycle has made, in order
    before,             \* the two tables as they were when that cycle began
    response,           \* <<what the query handler that has just returned gave>>, else <<>>
    \* The text classifiers: one call on a text
    text_arg,           \* argument text
    extracted,          \* <<the function called and what it returned>>, <<>> before the call
    \* Concurrent save_sentiment_data calls on one database file
    conn,               \* per thread: its call of save_sentiment_data and its connection
    write_lock          \* the thread whose connection holds SQLite's write lock, else ""

biasVars  == <<raw_sentiment, source, adjustment_factor, baseline, adjusted, correction_info>>
alertVars == <<sentiment_data, generated>>
pipeVars  == <<now, store, alerts_table, pc, results, all_data, alerts, result,
               cycles, trace, before, response>>
textVars  == <<text_arg, extracted>>
txnVars   == <<conn, write_lock>>
vars      == <<biasVars, alertVars, pipeVars, textVars, txnVars>>

-----------------------------------------------------------------------------
(* Helpers *)

Range(s) == {s[i] : i \in 1..Len(s)}

RECURSIVE SumSeq(_)
SumSeq(s) == IF s = <<>> THEN 0 ELSE Head(s) + SumSeq(Tail(s))

Column(rows, f) == [i \in 1..Len(rows) |-> rows[i][f]]

SeqsUpTo(S, n) == UNION {[1..k -> S] : k \in 0..n}

Max2(a, b) == IF a >= b THEN a ELSE b
Min2(a, b) == IF a <= b THEN a ELSE b

\* Python dict.get(key, default)
DictGet(d, key, default) == IF key \in DOMAIN d THEN d[key] ELSE default

-----------------------------------------------------------------------------
(* settings.py: BiasConfig and AlertConfig *)

adjustment_factors ==
    [s \in {"twitter", "facebook", "news", "government", "community"} |->
        CASE s = "twitter"    -> 7
          [] s = "facebook"   -> 8
          [] s = "news"       -> 6
          [] s = "government" -> 12
          [] s = "community"  -> 10]

baseline_negativity ==
    [s \in {"twitter", "facebook", "news", "government", "community"} |->
        CASE s = "twitter"    -> -350
          [] s = "facebook"   -> -250
          [] s = "news"       -> -450
          [] s = "government" -> -50
          [] s = "community"  -> -150]

KnownSources == DOMAIN adjustment_factors

DefaultFactor   == 10       \* .get(source, 1.0)
DefaultBaseline == -200     \* .get(source, -0.2)
PositiveBoost   == 11       \* normalized * 1.1
Unit            == 1000     \* 1.0 in thousandths

high_threshold   == -500
medium_threshold == -300
minimum_sources  == 3

-----------------------------------------------------------------------------
(* bias_corrector.py *)

\* lines 13-22: the value before the clamp of line 24
Unclamped(raw, src) ==
    LET factor     == DictGet(adjustment_factors, src, DefaultFactor)
        base       == DictGet(baseline_negativity, src, DefaultBaseline)
        normalized == raw - base
    IN  IF raw < 0
        THEN (normalized * factor) \div 10 + base
        ELSE (normalized * PositiveBoost) \div 10 + base

Clamp(x) == Max2(-Unit, Min2(Unit, x))

AdjustSentimentNoClamp(raw, src) == Unclamped(raw, src)

AdjustSentimentBoostAtZero(raw, src) ==
    IF raw = 0
    THEN Clamp(((raw - DictGet(baseline_negativity, src, DefaultBaseline))
                 * DictGet(adjustment_factors, src, DefaultFactor)) \div 10
               + DictGet(baseline_negativity, src, DefaultBaseline))
    ELSE Clamp(Unclamped(raw, src))

\* adjust_sentiment(raw_sentiment, source)
AdjustSentiment(raw, src) == Clamp(Unclamped(raw, src))

GetCorrectionInfoOtherDefault(src) ==
    [source              |-> src,
     adjustment_factor   |-> DictGet(adjustment_factors, src, 11),
     baseline_negativity |-> DictGet(baseline_negativity, src, 0),
     description         |-> "Unknown bias pattern"]

\* _get_bias_description(source)
GetBiasDescription(src) ==
    CASE src = "twitter"    -> "High negative bias - reduces negative weight by 30%"
      [] src = "facebook"   -> "Medium negative bias - reduces negative weight by 20%"
      [] src = "news"       -> "High negative bias - reduces negative weight by 40%"
      [] src = "government" -> "Positive bias - increases negative weight by 20%"
      [] src = "community"  -> "Balanced - no adjustment applied"
      [] OTHER              -> "Unknown bias pattern"

\* get_correction_info(source)
GetCorrectionInfo(src) ==
    [source              |-> src,
     adjustment_factor   |-> DictGet(adjustment_factors, src, DefaultFactor),
     baseline_negativity |-> DictGet(baseline_negativity, src, DefaultBaseline),
     description         |-> GetBiasDescription(src)]

-----------------------------------------------------------------------------
(* models.py: SentimentData.  text and language are carried by no decision *)
(* modelled here and are left out.                                          *)

NoneValue == "<None>"

SentimentRecord(src, raw, adj, loc, ts, conf, cat) ==
    [source |-> src, raw_sentiment |-> raw, adjusted_sentiment |-> adj,
     location |-> loc, timestamp |-> ts, confidence |-> conf, category |-> cat]

\* What a collector builds from one item: adjusted_sentiment is always
\* bias_corrector.adjust_sentiment(raw_sentiment, source).
Normalize(src, raw, loc, ts, conf, cat) ==
    SentimentRecord(src, raw, AdjustSentiment(raw, src), loc, ts, conf, cat)

-----------------------------------------------------------------------------
(* alert_generator.py *)

RECURSIVE Gcd(_, _)
Gcd(a, b) == IF b = 0 THEN a ELSE Gcd(b, a % b)

Abs(x) == IF x < 0 THEN -x ELSE x

\* The exact value total / n, in lowest terms (n > 0).
Fraction(total, n) ==
    LET g == Gcd(Abs(total), n)
    IN  IF g = 0 THEN <<0, 1>> ELSE <<total \div g, n \div g>>

Mean(values) == Fraction(SumSeq(values), Len(values))

RECURSIVE Unique(_)

UniqueKeepsRepeats(s) == s

\* pandas unique(): the distinct values in order of first appearance
Unique(s) ==
    IF s = <<>> THEN <<>>
    ELSE LET init == Unique(SubSeq(s, 1, Len(s) - 1))
             last == s[Len(s)]
         IN  IF last \in Range(init) THEN init ELSE Append(init, last)

Count(s, v) == Cardinality({i \in 1..Len(s) : s[i] = v})

\* pandas value_counts(): the distinct non-missing values, most frequent first;
\* values of equal count keep their order of first appearance.
RECURSIVE SortByCount(_, _)

SortByCountTiesLast(values, s) ==
    IF values = <<>> THEN <<>>
    ELSE LET best == CHOOSE i \in 1..Len(values) :
                        /\ \A j \in 1..Len(values) : Count(s, values[j]) <= Count(s, values[i])
                        /\ \A j \in (i + 1)..Len(values) : Count(s, values[j]) < Count(s, values[i])
         IN  <<values[best]>> \o
             SortByCount(SelectSeq(values, LAMBDA v : v # values[best]), s)

SortByCount(values, s) ==
    IF values = <<>> THEN <<>>
    ELSE LET best == CHOOSE i \in 1..Len(values) :
                        /\ \A j \in 1..Len(values) : Count(s, values[j]) <= Count(s, values[i])
                        /\ \A j \in 1..(i - 1) : Count(s, values[j]) < Count(s, values[i])
         IN  <<values[best]>> \o
             SortByCount(SelectSeq(values, LAMBDA v : v # values[best]), s)

ValueCounts(s) == SortByCount(Unique(SelectSeq(s, LAMBDA v : v # NoneValue)), s)

SkipsAreaNever(area) == FALSE

\* line 32: if area == 'Unknown': continue
SkipsArea(area) == area = "Unknown"

TooFewSourcesOffByOne(area_data) == Len(area_data) < minimum_sources - 1

\* line 37: if len(area_data) < self.minimum_sources: continue
TooFewSources(area_data) == Len(area_data) < minimum_sources

SeverityStrict(total, n) ==
    IF total < high_threshold * n THEN "high"
    ELSE IF total < medium_threshold * n THEN "medium"
    ELSE "none"

\* lines 40-49: avg_sentiment = total / n against the two thresholds
Severity(total, n) ==
    IF total <= high_threshold * n THEN "high"
    ELSE IF total <= medium_threshold * n THEN "medium"
    ELSE "none"

\* _generate_alert_message: the template chosen and what is interpolated
GenerateAlertMessage(area, category, total, source_count) ==
    [template  |-> IF category \in {"traffic", "crime", "law_enforcement",
                                    "emergency", "general"}
                   THEN category ELSE "fallback",
     intensity |-> IF total <= high_threshold * source_count
                   THEN "significantly" ELSE "moderately",
     area      |-> area,
     reports   |-> source_count]

SecurityAlert(area, message, severity, confidence, alert_type, ts) ==
    [area |-> area, message |-> message, severity |-> severity,
     confidence |-> confidence, alert_type |-> alert_type, timestamp |-> ts,
     resolved |-> FALSE]

\* lines 31-67: the loop over df['location'].unique().  An exception inside
\* the loop (category_counts.index[0] on an empty count table) is caught by
\* the except of line 69: the loop is left and the alerts so far returned.
RECURSIVE AlertLoop(_, _, _, _)
AlertLoop(areas, data, t, acc) ==
    IF areas = <<>> THEN acc
    ELSE LET area      == Head(areas)
             area_data == SelectSeq(data, LAMBDA r : r.location = area)
             n         == Len(area_data)
             total     == SumSeq(Column(area_data, "adjusted_sentiment"))
             counts    == ValueCounts(Column(area_data, "category"))
         IN  IF SkipsArea(area) THEN AlertLoop(Tail(areas), data, t, acc)
             ELSE IF TooFewSources(area_data) THEN AlertLoop(Tail(areas), data, t, acc)
             ELSE IF Severity(total, n) = "none" THEN AlertLoop(Tail(areas), data, t, acc)
             ELSE IF counts = <<>> THEN acc
             ELSE AlertLoop(Tail(areas), data, t,
                    Append(acc,
                      SecurityAlert(area,
                                    GenerateAlertMessage(area, counts[1], total, n),
                                    Severity(total, n),
                                    Mean(Column(area_data, "confidence")),
                                    counts[1], t)))

\* generate_alerts(sentiment_data), called at time t
GenerateAlerts(data, t) ==
    IF data = <<>> THEN <<>>
    ELSE AlertLoop(Unique(Column(data, "location")), data, t, <<>>)

-----------------------------------------------------------------------------
(* Text classification: data_collector.py and utils/helpers.py.  A text is *)
(* a string; s.lower(), the test "sub in s", str.startswith and the three  *)
(* regular expressions are computed on its characters.                     *)

UpperCase == "ABCDEFGHIJKLMNOPQRSTUVWXYZ"
LowerCase == "abcdefghijklmnopqrstuvwxyz"

\* str.lower() on one character
LowerChar(c) ==
    IF \E i \in 1..Len(UpperCase) : SubSeq(UpperCase, i, i) = c
    THEN LET i == CHOOSE k \in 1..Len(UpperCase) : SubSeq(UpperCase, k, k) = c
         IN  SubSeq(LowerCase, i, i)
    ELSE c

\* str.lower()
RECURSIVE Lower(_)
Lower(s) ==
    IF Len(s) = 0 THEN ""
    ELSE LowerChar(SubSeq(s, 1, 1)) \o Lower(SubSeq(s, 2, Len(s)))

\* sub in s
Contains(sub, s) ==
    \E i \in 1..(Len(s) - Len(sub) + 1) : SubSeq(s, i, i + Len(sub) - 1) = sub

\* s.startswith(prefix)
StartsWith(s, prefix) ==
    Len(prefix) <= Len(s) /\ SubSeq(s, 1, Len(prefix)) = prefix

\* any(word in text for word in words)
AnyIn(words, text) == \E i \in 1..Len(words) : Contains(words[i], text)

\* sum(1 for keyword in keywords if keyword in text)
Hits(keywords, text) == Cardinality({i \in 1..Len(keywords) : Contains(keywords[i], text)})

\* DataCollector.categorize_security_issue
CategorizeSecurityIssue(text) ==
    LET text_lower == Lower(text)
    IN  IF AnyIn(<<"traffic", "road", "accident", "jam">>, text_lower) THEN "traffic"
        ELSE IF AnyIn(<<"crime", "theft", "robbery", "steal">>, text_lower) THEN "crime"
        ELSE IF AnyIn(<<"police", "law", "arrest">>, text_lower) THEN "law_enforcement"
        ELSE IF AnyIn(<<"emergency", "fire", "medical">>, text_lower) THEN "emergency"
        ELSE "general"

\* helpers.categorize_sentiment_topic: the dict categories, in its order
TopicCategories ==
    << <<"traffic", <<"traffic", "road", "highway", "bridge", "transport", "bus",
                      "taxi", "okada", "keke", "danfo", "jam", "congestion", "accident">> >>,
       <<"crime", <<"crime", "theft", "robbery", "burglary", "steal", "pickpocket",
                    "fraud", "scam", "kidnap", "violence", "fight", "attack">> >>,
       <<"law_enforcement", <<"police", "officer", "arrest", "station", "patrol",
                              "checkpoint", "law", "enforcement", "authority",
                              "government">> >>,
       <<"emergency", <<"emergency", "fire", "medical", "ambulance", "hospital",
                        "accident", "disaster", "flood", "rescue">> >>,
       <<"infrastructure", <<"power", "electricity", "water", "light", "network",
                             "internet", "phone", "service", "facility">> >> >>

\* helpers.categorize_sentiment_topic: the category of the highest count,
\* the first such in dict order (max with key), 'general' when all are 0
CategorizeSentimentTopic(text) ==
    LET text_lower == Lower(text)
        n          == Len(TopicCategories)
        score      == [i \in 1..n |-> Hits(TopicCategories[i][2], text_lower)]
        best       == CHOOSE i \in 1..n :
                         /\ \A j \in 1..n : score[j] <= score[i]
                         /\ \A j \in 1..(i - 1) : score[j] < score[i]
    IN  IF score[best] > 0 THEN TopicCategories[best][1] ELSE "general"

\* settings.py: DataCollectionConfig.lagos_areas
lagos_areas ==
    <<"Victoria Island", "Ikeja", "Surulere", "Yaba", "Ikoyi", "Lagos Island",
      "Mainland", "Apapa", "Mushin", "Alimosho", "Eti-Osa", "Kosofe", "Shomolu",
      "Oshodi-Isolo", "Agege">>

\* helpers.get_lagos_areas
GetLagosAreas ==
    <<"Victoria Island", "Ikoyi", "Lagos Island", "Ikeja", "Surulere", "Yaba",
      "Apapa", "Mushin", "Alimosho", "Agege", "Eti-Osa", "Kosofe", "Shomolu",
      "Oshodi-Isolo", "Ifako-Ijaiye", "Somolu", "Lagos Mainland", "Amuwo-Odofin",
      "Ojo", "Badagry">>

\* helpers.get_area_aliases, in dict order
GetAreaAliases ==
    << <<"Victoria Island", <<"VI", "V.I", "vic island", "victoria isl">> >>,
       <<"Ikoyi", <<"ikoyi island">> >>,
       <<"Lagos Island", <<"lagos isl", "isale eko">> >>,
       <<"Ikeja", <<"ikeja gra", "ikeja government">> >>,
       <<"Surulere", <<"suru lere", "surulere lagos">> >>,
       <<"Yaba", <<"yaba college">> >>,
       <<"Apapa", <<"apapa port">> >>,
       <<"Mushin", <<"mushin lagos">> >>,
       <<"Alimosho", <<"alimosho lga">> >>,
       <<"Agege", <<"agege motor road">> >>,
       <<"Eti-Osa", <<"eti osa">> >>,
       <<"Kosofe", <<"kosofe lga">> >>,
       <<"Shomolu", <<"shomolu lga">> >>,
       <<"Oshodi-Isolo", <<"oshodi", "isolo">> >>,
       <<"Ifako-Ijaiye", <<"ifako", "ijaiye">> >>,
       <<"Amuwo-Odofin", <<"amuwo odofin", "festac">> >>,
       <<"Ojo", <<"ojo cantonment">> >>,
       <<"Badagry", <<"badagry expressway">> >> >>

\* The first position of seq that satisfies Test, 0 when there is none
FirstIndex(seq, Test(_)) ==
    IF \E i \in 1..Len(seq) : Test(seq[i])
    THEN CHOOSE i \in 1..Len(seq) : Test(seq[i]) /\ \A j \in 1..(i - 1) : ~Test(seq[j])
    ELSE 0

\* for area in areas: if area.lower() in text_lower: return area
DirectMatch(areas, text_lower) ==
    FirstIndex(areas, LAMBDA area : Contains(Lower(area), text_lower))

\* DataCollector.extract_location
ExtractLocation(text) ==
    LET i == DirectMatch(lagos_areas, Lower(text))
    IN  IF i > 0 THEN lagos_areas[i] ELSE "Unknown"

\* The words of a text whose words are separated by single spaces
RECURSIVE Words(_)
Words(s) ==
    IF Len(s) = 0 THEN <<>>
    ELSE IF \E i \in 1..Len(s) : SubSeq(s, i, i) = " "
    THEN LET i == CHOOSE k \in 1..Len(s) :
                     SubSeq(s, k, k) = " " /\ \A j \in 1..(k - 1) : SubSeq(s, j, j) # " "
         IN  (IF i = 1 THEN <<>> ELSE <<SubSeq(s, 1, i - 1)>>)
             \o Words(SubSeq(s, i + 1, Len(s)))
    ELSE <<s>>

\* re.findall(r'\b(?:in|at|from|near|around)\s+(\w+)', text_lower) from word
\* i on, on a text of words of letters: a preposition and the word after it
\* are consumed together
RECURSIVE AfterPreposition(_, _)
AfterPreposition(ws, i) ==
    IF i >= Len(ws) THEN <<>>
    ELSE IF ws[i] \in {"in", "at", "from", "near", "around"}
    THEN <<ws[i + 1]>> \o AfterPreposition(ws, i + 2)
    ELSE AfterPreposition(ws, i + 1)

\* re.findall(r'\b(\w+)\s+(?:a|b|c)', text_lower) from word i on: the word
\* before a word that starts with one of the suffixes
RECURSIVE BeforeSuffix(_, _, _)
BeforeSuffix(ws, i, suffixes) ==
    IF i >= Len(ws) THEN <<>>
    ELSE IF \E x \in suffixes : StartsWith(ws[i + 1], x)
    THEN <<ws[i]>> \o BeforeSuffix(ws, i + 2, suffixes)
    ELSE BeforeSuffix(ws, i + 1, suffixes)

ExtractLagosLocationAliasFirst(text) ==
    LET text_lower == Lower(text)
        d == DirectMatch(GetLagosAreas, text_lower)
        a == FirstIndex(GetAreaAliases,
                        LAMBDA e : \E k \in 1..Len(e[2]) : Contains(Lower(e[2][k]), text_lower))
    IN  IF a > 0 THEN GetAreaAliases[a][1]
        ELSE IF d > 0 THEN GetLagosAreas[d]
        ELSE "Unknown"

\* helpers.extract_lagos_location
ExtractLagosLocation(text) ==
    LET text_lower == Lower(text)
        areas      == GetLagosAreas
        d == DirectMatch(areas, text_lower)
        a == FirstIndex(GetAreaAliases,
                        LAMBDA e : \E k \in 1..Len(e[2]) : Contains(Lower(e[2][k]), text_lower))
        ws      == Words(text_lower)
        matches == AfterPreposition(ws, 1)
                   \o BeforeSuffix(ws, 1, {"area", "region", "district"})
                   \o BeforeSuffix(ws, 1, {"road", "street", "avenue"})
        AreaOf(match) ==
            FirstIndex(areas, LAMBDA area : \/ Contains(match, Lower(area))
                                            \/ StartsWith(Lower(area), match))
        m == FirstIndex(matches, LAMBDA match : AreaOf(match) > 0)
    IN  IF d > 0 THEN areas[d]
        ELSE IF a > 0 THEN GetAreaAliases[a][1]
        ELSE IF m > 0 THEN areas[AreaOf(matches[m])]
        ELSE "Unknown"

\* settings.py: DataCollectionConfig.security_keywords['pidgin'], ['yoruba']
security_keywords_pidgin == <<"wahala", "gbege", "kasala", "palaba", "scatter", "burst">>

security_keywords_yoruba == <<"ija", "ole", "wahala", "opolopo", "ewu">>

\* DataCollector.detect_language
DetectLanguage(text) ==
    LET text_lower == Lower(text)
    IN  IF AnyIn(security_keywords_pidgin, text_lower) THEN "pidgin"
        ELSE IF AnyIn(security_keywords_yoruba, text_lower) THEN "yoruba"
        ELSE "english"

\* helpers.detect_nigerian_language: the two lists of indicators ('omo' and
\* 'eko' are in the second list twice and count twice)
pidgin_indicators ==
    <<"wahala", "gbege", "kasala", "palaba", "dey", "wetin", "abi", "shey",
      "abeg", "comot", "naija", "naira", "oga", "madam", "pikin", "japa",
      "sabi", "waka", "gist", "hammer", "scatter">>

yoruba_indicators ==
    <<"omo", "oko", "obinrin", "awa", "eyin", "won", "mi", "tire", "wa",
      "ile", "oja", "eko", "agba", "omo", "baba", "mama", "eko", "iya">>

\* helpers.detect_nigerian_language
DetectNigerianLanguage(text) ==
    LET text_lower   == Lower(text)
        pidgin_count == Hits(pidgin_indicators, text_lower)
        yoruba_count == Hits(yoruba_indicators, text_lower)
    IN  IF pidgin_count > yoruba_count /\ pidgin_count > 0 THEN "pidgin"
        ELSE IF yoruba_count > 0 THEN "yoruba"
        ELSE "english"

-----------------------------------------------------------------------------
(* Values of the variables a specification does not use *)

BiasIdle ==
    /\ raw_sentiment = 0 /\ source = "" /\ adjustment_factor = <<>>
    /\ baseline = <<>> /\ adjusted = <<>> /\ correction_info = <<>>

AlertIdle == sentiment_data = <<>> /\ generated = <<>>

TextIdle == text_arg = "" /\ extracted = <<>>

\* The threads that run analysis cycles: the scheduler thread's job
\* (main.py) and a request thread serving POST /api/analysis/run (routes.py)
Writers == {"scheduler", "request"}

NoCall == [pc |-> "closed", data |-> <<>>, inserted |-> 0, committed |-> 0]

TxnIdle == conn = [p \in Writers |-> NoCall] /\ write_lock = ""

PipeIdle ==
    /\ now = 0 /\ store = <<>> /\ alerts_table = <<>> /\ pc = "idle"
    /\ results = <<>> /\ all_data = <<>> /\ alerts = <<>> /\ result = <<>> /\ cycles = 0
    /\ trace = <<>> /\ before = <<>> /\ response = <<>>

-----------------------------------------------------------------------------
(* SpecBias: one call of adjust_sentiment and one of get_correction_info   *)
(* on every raw score of [-1, 1] in steps of 0.01, and in steps of 0.001   *)
(* next to the branch switch at 0, and every source.                       *)

RawSentiments == {r * 10 : r \in -100..100} \cup (-5..5)

Sources == KnownSources \cup {"whatsapp", ""}

InitBias ==
    /\ raw_sentiment \in RawSentiments
    /\ source \in Sources
    /\ adjustment_factor = <<>> /\ baseline = <<>>
    /\ adjusted = <<>> /\ correction_info = <<>>
    /\ AlertIdle /\ PipeIdle /\ TextIdle /\ TxnIdle

\* bias_corrector.py lines 11-24
AdjustSentimentCall ==
    /\ adjusted = <<>>
    /\ adjustment_factor' = <<DictGet(adjustment_factors, source, DefaultFactor)>>
    /\ baseline' = <<DictGet(baseline_negativity, source, DefaultBaseline)>>
    /\ adjusted' = <<AdjustSentiment(raw_sentiment, source)>>
    /\ UNCHANGED <<raw_sentiment, source, correction_info, alertVars, pipeVars, textVars, txnVars>>

\* bias_corrector.py lines 26-33
GetCorrectionInfoCall ==
    /\ correction_info = <<>>
    /\ correction_info' = <<GetCorrectionInfo(source)>>
    /\ UNCHANGED <<raw_sentiment, source, adjustment_factor, baseline, adjusted,
                   alertVars, pipeVars, textVars, txnVars>>

NextBias == AdjustSentimentCall \/ GetCorrectionInfoCall

SpecBias == InitBias /\ [][NextBias]_vars

\* C1: for every source, known or not, and every raw score in [-1, 1] the
\* value adjust_sentiment returns lies in [-1, 1].
C1_AdjustedWithinBounds ==
    adjusted # <<>> => (adjusted[1] >= -1000 /\ adjusted[1] <= 1000)

\* C1 witness: a call whose unclamped value left the interval (government,
\* raw -1.0 gives -1.19) has returned.
C1_Witness ==
    /\ adjusted # <<>>
    /\ source = "government" /\ raw_sentiment = -1000
    /\ (((raw_sentiment + 50) * 12) \div 10) - 50 < -1000
    /\ adjusted[1] = -1000

\* The calibration tuple of settings.py lines 52-74, written out per source.
ReferenceFactor(src) ==
    CASE src = "twitter" -> 7 [] src = "facebook" -> 8 [] src = "news" -> 6
      [] src = "government" -> 12 [] src = "community" -> 10

ReferenceBaseline(src) ==
    CASE src = "twitter" -> -350 [] src = "facebook" -> -250 [] src = "news" -> -450
      [] src = "government" -> -50 [] src = "community" -> -150

ReferenceAdjusted(raw, src) ==
    LET normalized == raw - ReferenceBaseline(src)
        value == IF raw < 0
                 THEN (normalized * ReferenceFactor(src)) \div 10 + ReferenceBaseline(src)
                 ELSE (normalized * 11) \div 10 + ReferenceBaseline(src)
    IN  IF value > 1000 THEN 1000 ELSE IF value < -1000 THEN -1000 ELSE value

\* C2: for every known source adjust_sentiment returns the reference value
\* (negative raw scaled by the source's factor, raw >= 0 scaled by 1.1, both
\* around the baseline, then clamped); (-0.6, twitter) gives -0.525 and
\* (0.0, news) gives 0.045.
C2_AdjustedIsReference ==
    (adjusted # <<>> /\ source \in KnownSources) =>
        /\ adjusted[1] = ReferenceAdjusted(raw_sentiment, source)
        /\ (raw_sentiment = -600 /\ source = "twitter") => adjusted[1] = -525
        /\ (raw_sentiment = 0 /\ source = "news") => adjusted[1] = 45

\* C2 witness: the call adjust_sentiment(0.0, 'news') has returned 0.045.
C2_Witness ==
    adjusted = <<45>> /\ raw_sentiment = 0 /\ source = "news"

\* C3: for a source outside the calibration tables both calls return (none
\* is left without a value by a failed lookup) and use factor 1.0 and
\* baseline -0.2; for every source get_correction_info reports the factor
\* and baseline adjust_sentiment used.
C3_UnknownSourceDefault ==
    /\ (adjusted # <<>> /\ source \notin KnownSources) =>
            /\ adjustment_factor = <<10>> /\ baseline = <<-200>>
            /\ adjusted[1] =
                 IF raw_sentiment < 0 THEN raw_sentiment
                 ELSE Min2(1000, ((raw_sentiment + 200) * 11) \div 10 - 200)
    /\ (correction_info # <<>> /\ source \notin KnownSources) =>
            /\ correction_info[1].adjustment_factor = 10
            /\ correction_info[1].baseline_negativity = -200
    /\ (correction_info # <<>> /\ adjusted # <<>>) =>
            /\ correction_info[1].adjustment_factor = adjustment_factor[1]
            /\ correction_info[1].baseline_negativity = baseline[1]
    /\ (adjusted = <<>>) => ENABLED AdjustSentimentCall
    /\ (correction_info = <<>>) => ENABLED GetCorrectionInfoCall

\* C3 witness: both calls have returned for the source 'whatsapp', which is
\* in neither table.
C3_Witness ==
    /\ source = "whatsapp" /\ source \notin KnownSources
    /\ adjusted # <<>> /\ correction_info # <<>>
    /\ correction_info[1].adjustment_factor = 10

-----------------------------------------------------------------------------
(* SpecText: one call of one of the four text classifiers on every text of *)
(* at most MaxWords words of TextWords, separated by single spaces.  The   *)
(* words are two area names, two aliases, a preposition, a word that is    *)
(* part of an area name, and keywords of the categories.                   *)

MaxWords == 3

TextWords ==
    {"Ikeja", "yaba", "festac", "in", "lagos", "road", "robbery", "theft", "power"}

\* ' '.join(ws)
RECURSIVE JoinWords(_)
JoinWords(ws) ==
    IF ws = <<>> THEN ""
    ELSE IF Len(ws) = 1 THEN ws[1]
    ELSE ws[1] \o " " \o JoinWords(Tail(ws))

InitText ==
    /\ text_arg \in {JoinWords(ws) : ws \in SeqsUpTo(TextWords, MaxWords)}
    /\ extracted = <<>>
    /\ BiasIdle /\ AlertIdle /\ PipeIdle /\ TxnIdle

TextCall(function, value) ==
    /\ extracted = <<>>
    /\ extracted' = <<[function |-> function, value |-> value]>>
    /\ UNCHANGED <<text_arg, biasVars, alertVars, pipeVars, txnVars>>

\* data_collector.py lines 47-60
CategorizeSecurityIssueCall ==
    TextCall("categorize_security_issue", CategorizeSecurityIssue(text_arg))

\* helpers.py lines 260-297
CategorizeSentimentTopicCall ==
    TextCall("categorize_sentiment_topic", CategorizeSentimentTopic(text_arg))

\* data_collector.py lines 39-45
ExtractLocationCall ==
    TextCall("extract_location", ExtractLocation(text_arg))

\* helpers.py lines 146-179
ExtractLagosLocationCall ==
    TextCall("extract_lagos_location", ExtractLagosLocation(text_arg))

NextText ==
    \/ CategorizeSecurityIssueCall
    \/ CategorizeSentimentTopicCall
    \/ ExtractLocationCall
    \/ ExtractLagosLocationCall

SpecText == InitText /\ [][NextText]_vars

\* SpecLanguage: one call of one of the two language detectors on every
\* text of at most MaxWords words of LanguageWords: pidgin and yoruba
\* keywords of both detectors and a word of neither list.
LanguageWords == {"Wahala", "abeg", "gbege", "omo", "ile", "ija", "police"}

InitLanguage ==
    /\ text_arg \in {JoinWords(ws) : ws \in SeqsUpTo(LanguageWords, MaxWords)}
    /\ extracted = <<>>
    /\ BiasIdle /\ AlertIdle /\ PipeIdle /\ TxnIdle

\* data_collector.py lines 62-74
DetectLanguageCall ==
    TextCall("detect_language", DetectLanguage(text_arg))

\* helpers.py lines 69-94
DetectNigerianLanguageCall ==
    TextCall("detect_nigerian_language", DetectNigerianLanguage(text_arg))

NextLanguage == DetectLanguageCall \/ DetectNigerianLanguageCall

SpecLanguage == InitLanguage /\ [][NextLanguage]_vars

-----------------------------------------------------------------------------
(* SpecAlerts: one call of generate_alerts on every batch of at most       *)
(* MaxBatch records over two areas and 'Unknown'.  The adjusted scores     *)
(* -0.7 and -0.1 put the mean of a group of three or four on both sides of *)
(* and exactly on both thresholds (-0.7, -0.55, -0.5, -0.4, -0.3, -0.25,   *)
(* -0.1); a record is a crime tweet (confidence 0.7) or a traffic news     *)
(* item (confidence 0.85), as the collectors build them.                   *)

MaxBatch == 4

AlertAreas == {"Ikeja", "Yaba", "Unknown"}

AlertScores == {-700, -100}

AlertRecords ==
    {SentimentRecord(k[1], 0, adj, loc, 0, k[2], k[3]) :
        k \in {<<"twitter", 700, "crime">>, <<"news", 850, "traffic">>},
        adj \in AlertScores, loc \in AlertAreas}

InitAlerts ==
    /\ sentiment_data \in SeqsUpTo(AlertRecords, MaxBatch)
    /\ generated = <<>>
    /\ BiasIdle /\ PipeIdle /\ TextIdle /\ TxnIdle

\* alert_generator.py lines 19-72
GenerateAlertsCall ==
    /\ generated = <<>>
    /\ generated' = <<GenerateAlerts(sentiment_data, now)>>
    /\ UNCHANGED <<sentiment_data, biasVars, pipeVars, textVars, txnVars>>

NextAlerts == GenerateAlertsCall

SpecAlerts == InitAlerts /\ [][NextAlerts]_vars

\* SpecMissing: one call of generate_alerts on every batch of
\* 2 * minimum_sources tweets of adjusted score -0.7 in two areas, each with
\* category 'crime' or with no category (None)
MissingRecords ==
    {SentimentRecord("twitter", 0, -700, loc, 0, 700, cat) :
        loc \in {"Ikeja", "Yaba"}, cat \in {"crime", NoneValue}}

InitMissing ==
    /\ sentiment_data \in [1..(2 * minimum_sources) -> MissingRecords]
    /\ generated = <<>>
    /\ BiasIdle /\ PipeIdle /\ TextIdle /\ TxnIdle

SpecMissing == InitMissing /\ [][NextAlerts]_vars

\* The records of an area in a batch, and their total adjusted score.
GroupSize(data, area) == Cardinality({i \in 1..Len(data) : data[i].location = area})

RECURSIVE GroupTotal(_, _)
GroupTotal(data, area) ==
    IF data = <<>> THEN 0
    ELSE (IF Head(data).location = area THEN Head(data).adjusted_sentiment ELSE 0)
         + GroupTotal(Tail(data), area)

AlertsFor(list, area) == {i \in 1..Len(list) : list[i].area = area}

BatchAreas(data) == {data[i].location : i \in 1..Len(data)}

\* C4: an area with fewer than minimum_sources records in the batch gets no
\* alert, whatever the adjusted scores of its records.
C4_FewSourcesNoAlert ==
    generated # <<>> =>
        \A area \in BatchAreas(sentiment_data) :
            GroupSize(sentiment_data, area) < 3 => AlertsFor(generated[1], area) = {}

\* C4 witness: the call has returned for a batch in which an area has
\* exactly minimum_sources - 1 records, all at the most negative score.
C4_Witness ==
    /\ generated # <<>>
    /\ GroupSize(sentiment_data, "Ikeja") = 2
    /\ GroupTotal(sentiment_data, "Ikeja") = -1400
    /\ AlertsFor(generated[1], "Ikeja") = {}

-----------------------------------------------------------------------------
(* manager.py: the two tables and the queries over them.  A timestamp is a *)
(* number of hours; ok says whether SQLite served the call (FALSE: the     *)
(* connect or the execute raised, which every query handler catches).      *)

\* WHERE timestamp > since, with since = now - hours
InWindow(row, t, hours) == row.timestamp > t - hours

\* ORDER BY timestamp DESC over the rows at positions idx.  SQL leaves the
\* order of rows of equal timestamp open; SQLite walks the timestamp index
\* of lines 62-75 backwards, which lists them latest rowid first.  No
\* definition below reads the order of rows of equal timestamp.
RECURSIVE DescendingOrder(_, _)
DescendingOrder(rows, idx) ==
    IF idx = {} THEN <<>>
    ELSE LET first == CHOOSE i \in idx :
                        \A j \in idx :
                           \/ rows[i].timestamp > rows[j].timestamp
                           \/ rows[i].timestamp = rows[j].timestamp /\ i >= j
         IN  <<rows[first]>> \o DescendingOrder(rows, idx \ {first})

\* get_recent_sentiment(hours)
GetRecentSentiment(rows, t, hours, ok) ==
    IF ~ok THEN <<>>
    ELSE DescendingOrder(rows, {i \in 1..Len(rows) : InWindow(rows[i], t, hours)})

\* get_active_alerts()
GetActiveAlerts(rows, t, ok) ==
    IF ~ok THEN <<>>
    ELSE DescendingOrder(rows, {i \in 1..Len(rows) :
                                  InWindow(rows[i], t, 24) /\ rows[i].resolved = FALSE})

\* round(total / n, 3) of a value kept in thousandths: to the nearest
\* thousandth, a tie to the even one
Round3(total, n) ==
    LET q == total \div n
        r == total % n
    IN  IF 2 * r < n THEN q
        ELSE IF 2 * r > n THEN q + 1
        ELSE IF q % 2 = 0 THEN q ELSE q + 1

\* get_area_analysis: WHERE timestamp > ? AND location != 'Unknown'
AreaFilter(row, t, hours) == InWindow(row, t, hours) /\ row.location # "Unknown"

\* get_area_analysis: one result row per GROUP BY location
AreaRow(rows, t, hours, area) ==
    LET g == SelectSeq(rows, LAMBDA r : AreaFilter(r, t, hours) /\ r.location = area)
    IN  [area            |-> area,
         sentiment       |-> Round3(SumSeq(Column(g, "adjusted_sentiment")), Len(g)),
         sources         |-> Len(g),
         confidence      |-> Round3(SumSeq(Column(g, "confidence")), Len(g)),
         crime_reports   |-> Count(Column(g, "category"), "crime"),
         traffic_reports |-> Count(Column(g, "category"), "traffic")]

\* AVG(adjusted_sentiment) of a group, the ORDER BY key, as total and count
AreaKey(rows, t, hours, area) ==
    LET g == SelectSeq(rows, LAMBDA r : AreaFilter(r, t, hours) /\ r.location = area)
    IN  <<SumSeq(Column(g, "adjusted_sentiment")), Len(g)>>

\* The location strings used below, in the byte order in which SQLite
\* compares TEXT
LocationOrder == <<"Ikeja", "Unknown", "Yaba">>

LocationRank(a) == CHOOSE i \in 1..Len(LocationOrder) : LocationOrder[i] = a

\* get_area_analysis(hours), as the set of the lists it may return.  SQLite
\* walks idx_sentiment_location for GROUP BY location, which yields the
\* groups in location order, and its sorter for ORDER BY sentiment ASC
\* keeps groups of equal mean in that order: the list is a function of the
\* rows.
GetAreaAnalysis(rows, t, hours, ok) ==
    IF ~ok THEN {<<>>}
    ELSE LET areas == {rows[i].location : i \in {j \in 1..Len(rows) : AreaFilter(rows[j], t, hours)}}
             n     == Cardinality(areas)
             Key(a) == AreaKey(rows, t, hours, a)
             Less(a, b) == Key(a)[1] * Key(b)[2] < Key(b)[1] * Key(a)[2]
             Same(a, b) == Key(a)[1] * Key(b)[2] = Key(b)[1] * Key(a)[2]
         IN  {[i \in 1..n |-> AreaRow(rows, t, hours, f[i])] :
                f \in {g \in [1..n -> areas] :
                         /\ \A i, j \in 1..n : i # j => g[i] # g[j]
                         /\ \A i, j \in 1..n :
                              i < j => \/ Less(g[i], g[j])
                                       \/ Same(g[i], g[j])
                                          /\ LocationRank(g[i]) < LocationRank(g[j])}}

\* The source strings used below, in the byte order in which SQLite
\* compares TEXT
SourceOrder == <<"government", "news", "twitter">>

SourceRank(src) == CHOOSE i \in 1..Len(SourceOrder) : SourceOrder[i] = src

\* str.title() on the source strings used below
Title(src) ==
    CASE src = "government" -> "Government"
      [] src = "news"       -> "News"
      [] src = "twitter"    -> "Twitter"

\* round((count / total_count) * 100, 1) if total_count > 0 else 0, in
\* tenths of a percent
Percentage(count, total_count) ==
    IF total_count > 0 THEN Round3(count * 1000, total_count) ELSE 0

\* get_source_breakdown(hours): one group per source of the window, ORDER BY
\* count DESC.  SQLite builds the groups in source order and its sorter
\* gives groups of equal count in descending source order.
GetSourceBreakdown(rows, t, hours, ok) ==
    IF ~ok THEN <<>>
    ELSE LET w       == SelectSeq(rows, LAMBDA r : InWindow(r, t, hours))
             srcs    == {w[i].source : i \in 1..Len(w)}
             n       == Cardinality(srcs)
             Of(src) == SelectSeq(w, LAMBDA r : r.source = src)
             order   == CHOOSE g \in [1..n -> srcs] :
                          /\ \A i, j \in 1..n : i # j => g[i] # g[j]
                          /\ \A i, j \in 1..n :
                               i < j => \/ Len(Of(g[i])) > Len(Of(g[j]))
                                        \/ /\ Len(Of(g[i])) = Len(Of(g[j]))
                                           /\ SourceRank(g[i]) > SourceRank(g[j])
             total_count == SumSeq([i \in 1..n |-> Len(Of(order[i]))])
         IN  [i \in 1..n |->
                LET g == Of(order[i])
                IN  [name          |-> Title(order[i]),
                     count         |-> Len(g),
                     sentiment     |-> Round3(SumSeq(Column(g, "adjusted_sentiment")), Len(g)),
                     raw_sentiment |-> Round3(SumSeq(Column(g, "raw_sentiment")), Len(g)),
                     percentage    |-> Percentage(Len(g), total_count)]]

-----------------------------------------------------------------------------
(* sentiment_analyzer.py: get_current_status *)

\* lines 102-130, from the two lists the store calls of lines 99-100 returned.
\* Both calls catch their own exceptions, and the sums are over numbers, so
\* the except branch of lines 132-143 is not taken.
GetCurrentStatus(recent_data, active_alerts) ==
    IF recent_data = <<>>
    THEN [overall_sentiment |-> 0, raw_sentiment |-> 0, confidence |-> 0,
          total_sources |-> 0, active_alerts |-> 0, last_update |-> <<>>,
          status |-> "no_data"]
    ELSE [overall_sentiment |-> Round3(SumSeq(Column(recent_data, "adjusted_sentiment")),
                                       Len(recent_data)),
          raw_sentiment     |-> Round3(SumSeq(Column(recent_data, "raw_sentiment")),
                                       Len(recent_data)),
          confidence        |-> Round3(SumSeq(Column(recent_data, "confidence")),
                                       Len(recent_data)),
          total_sources     |-> Len(recent_data),
          active_alerts     |-> Len(active_alerts),
          last_update       |-> <<recent_data[1].timestamp>>,
          status            |-> "healthy"]

-----------------------------------------------------------------------------
(* Spec: SentimentAnalyzer.run_analysis_cycle on its store, cycle after    *)
(* cycle, with time passing between cycles.                                *)

MaxCycles == 2      \* cycles started
MaxTicks  == 1      \* steps of the clock, of 24 hours each

Returned(items) == [raised |-> FALSE, items |-> items]
Raised == [raised |-> TRUE, items |-> <<>>]

\* What collect_twitter_data may give back at time t: an exception, no item,
\* or one crime tweet of raw score -0.91 (adjusted -0.742) in Ikeja.
TwitterResults(t) ==
    {Raised, Returned(<<>>),
     Returned(<<Normalize("twitter", -910, "Ikeja", t, 700, "crime")>>)}

\* collect_news_data: an exception, no item, one traffic item of raw score
\* -1.0 (adjusted -0.78) in Ikeja, or two such items with no area found.
NewsResults(t) ==
    {Raised, Returned(<<>>),
     Returned(<<Normalize("news", -1000, "Ikeja", t, 850, "traffic")>>),
     Returned(<<Normalize("news", -1000, "Unknown", t, 850, "traffic"),
                Normalize("news", -1000, "Unknown", t, 850, "traffic")>>)}

\* collect_government_data: an exception, no item, or one announcement: of
\* raw score -1.0 (adjusted -1.0) in Ikeja or with no area found, or of raw
\* score 0.67 (adjusted 0.742) in Ikeja.  Three items in one area have mean
\* -0.841 or -0.853 (at most high_threshold) or -0.26 (above
\* medium_threshold); the tweet and the positive announcement together
\* have mean 0.
GovernmentResults(t) ==
    {Raised, Returned(<<>>),
     Returned(<<Normalize("government", -1000, "Ikeja", t, 900, "general")>>),
     Returned(<<Normalize("government", 670, "Ikeja", t, 900, "general")>>),
     Returned(<<Normalize("government", -1000, "Unknown", t, 900, "general")>>)}

\* The tasks of lines 31-35, in order
Tasks == <<"twitter", "news", "government">>

\* lines 41-43: one logged line for each task that gather gave back as an
\* exception
CollectionErrors(rs) ==
    LET Line(i) == IF rs[i].raised THEN <<"Collection error: " \o Tasks[i]>> ELSE <<>>
    IN  Line(1) \o Line(2) \o Line(3)

RECURSIVE Gather(_)

GatherDropsAfterError(rs) ==
    IF rs = <<>> \/ Head(rs).raised THEN <<>>
    ELSE Head(rs).items \o Gather(Tail(rs))

\* lines 39-44: the lists of the tasks that did not raise, in task order
Gather(rs) ==
    IF rs = <<>> THEN <<>>
    ELSE (IF Head(rs).raised THEN <<>> ELSE Head(rs).items) \o Gather(Tail(rs))

GetSourcesBreakdownOneEach(data) ==
    [src \in {data[i].source : i \in 1..Len(data)} |-> 1]

\* _get_sources_breakdown(data)
GetSourcesBreakdown(data) ==
    [src \in {data[i].source : i \in 1..Len(data)} |-> Count(Column(data, "source"), src)]

ErrorResultWithoutError(t, text) ==
    [processed_items |-> 0, alerts_generated |-> 0, timestamp |-> t,
     status |-> "error"]

\* lines 76-84: the dict the except branch returns
ErrorResult(t, text) ==
    [processed_items |-> 0, alerts_generated |-> 0, timestamp |-> t,
     status |-> "error", error |-> text]

Init ==
    /\ now = 0 /\ store = <<>> /\ alerts_table = <<>> /\ pc = "idle"
    /\ results = <<>> /\ all_data = <<>> /\ alerts = <<>> /\ result = <<>> /\ cycles = 0
    /\ trace = <<>> /\ before = <<>> /\ response = <<>>
    /\ BiasIdle /\ AlertIdle /\ TextIdle /\ TxnIdle

\* time passes between two cycles
Tick ==
    /\ pc = "idle"
    /\ now < MaxTicks * 24
    /\ now' = now + 24
    /\ UNCHANGED <<store, alerts_table, pc, results, all_data, alerts, result,
                   cycles, trace, before, biasVars, alertVars, textVars, txnVars>>
    /\ response' = <<>>

\* run_analysis_cycle lines 29-54: gather the three collections; with no
\* item at all the cycle returns its 'warning' result at once.
Collect ==
    /\ pc = "idle"
    /\ cycles < MaxCycles
    /\ \E tw \in TwitterResults(now), nw \in NewsResults(now), gv \in GovernmentResults(now) :
          LET data == Gather(<<tw, nw, gv>>)
          IN  /\ all_data' = data
              /\ trace' = <<"collect">> \o CollectionErrors(<<tw, nw, gv>>)
              /\ IF data = <<>>
                 THEN /\ pc' = "idle"
                      /\ results' = <<>>
                      /\ result' = <<[processed_items |-> 0, alerts_generated |-> 0,
                                      timestamp |-> now, status |-> "warning",
                                      message |-> "No data collected"]>>
                 ELSE /\ pc' = "save_sentiment_data"
                      /\ results' = <<tw, nw, gv>>
                      /\ result' = result
    /\ cycles' = cycles + 1
    /\ before' = <<[store |-> store, alerts_table |-> alerts_table]>>
    /\ alerts' = <<>>
    /\ UNCHANGED <<now, store, alerts_table, biasVars, alertVars, textVars, txnVars>>
    /\ response' = <<>>

SaveSentimentDataSwallowsError ==
    /\ pc = "save_sentiment_data"
    /\ \E ok \in BOOLEAN :
          /\ store' = IF ok THEN store \o all_data ELSE store
          /\ trace' = Append(trace, IF ok THEN "save_sentiment_data"
                                          ELSE "save_sentiment_data raised")
    /\ pc' = "generate_alerts"
    /\ UNCHANGED <<now, alerts_table, results, all_data, alerts, result, cycles,
                   before, biasVars, alertVars, textVars, txnVars>>
    /\ response' = <<>>

\* line 57 with manager.py lines 85-110: the batch is inserted and committed
\* as one transaction; when SQLite raises, nothing is committed, the
\* exception reaches the except of lines 76-84 and the cycle returns 'error'.
SaveSentimentData ==
    /\ pc = "save_sentiment_data"
    /\ \E ok \in BOOLEAN :
          IF ok
          THEN /\ store' = store \o all_data
               /\ pc' = "generate_alerts"
               /\ trace' = Append(trace, "save_sentiment_data")
               /\ UNCHANGED <<results, all_data, result>>
          ELSE /\ store' = store
               /\ pc' = "idle"
               /\ trace' = Append(trace, "save_sentiment_data raised")
               /\ result' = <<ErrorResult(now, "save_sentiment_data")>>
               /\ results' = <<>>
               /\ all_data' = <<>>
    /\ UNCHANGED <<now, alerts_table, alerts, cycles, before, biasVars, alertVars, textVars, txnVars>>
    /\ response' = <<>>

GenerateAlertsStepSuppressing ==
    /\ pc = "generate_alerts"
    /\ alerts' = SelectSeq(GenerateAlerts(all_data, now),
                           LAMBDA a : \A k \in 1..Len(alerts_table) :
                                         alerts_table[k].area # a.area \/ alerts_table[k].resolved)
    /\ trace' = Append(trace, "generate_alerts")
    /\ pc' = "save_alerts"
    /\ UNCHANGED <<now, store, alerts_table, results, all_data, result, cycles,
                   before, biasVars, alertVars, textVars, txnVars>>
    /\ response' = <<>>

\* line 60: alerts = generate_alerts(all_data)
GenerateAlertsStep ==
    /\ pc = "generate_alerts"
    /\ alerts' = GenerateAlerts(all_data, now)
    /\ trace' = Append(trace, "generate_alerts")
    /\ pc' = "save_alerts"
    /\ UNCHANGED <<now, store, alerts_table, results, all_data, result, cycles,
                   before, biasVars, alertVars, textVars, txnVars>>
    /\ response' = <<>>

SaveAlertsAlways ==
    /\ pc = "save_alerts"
    /\ alerts_table' = alerts_table \o alerts
    /\ trace' = Append(trace, "save_alerts")
    /\ result' = <<[processed_items |-> Len(all_data),
                    alerts_generated |-> Len(alerts),
                    timestamp |-> now, status |-> "success",
                    sources_breakdown |-> GetSourcesBreakdown(all_data)]>>
    /\ pc' = "idle"
    /\ results' = <<>>
    /\ all_data' = <<>>
    /\ alerts' = <<>>
    /\ UNCHANGED <<now, store, cycles, before, biasVars, alertVars, textVars, txnVars>>
    /\ response' = <<>>

\* lines 63-74 with manager.py lines 112-136: save_alerts is called when
\* there is an alert; then the 'success' result is returned.  When
\* save_alerts raises, the except of lines 76-84 returns 'error'.
SaveAlertsAndReturn ==
    /\ pc = "save_alerts"
    /\ \/ /\ alerts = <<>>
          /\ UNCHANGED <<alerts_table, trace>>
          /\ result' = <<[processed_items |-> Len(all_data), alerts_generated |-> 0,
                          timestamp |-> now, status |-> "success",
                          sources_breakdown |-> GetSourcesBreakdown(all_data)]>>
       \/ /\ alerts # <<>>
          /\ alerts_table' = alerts_table \o alerts
          /\ trace' = Append(trace, "save_alerts")
          /\ result' = <<[processed_items |-> Len(all_data),
                          alerts_generated |-> Len(alerts),
                          timestamp |-> now, status |-> "success",
                          sources_breakdown |-> GetSourcesBreakdown(all_data)]>>
       \/ /\ alerts # <<>>
          /\ alerts_table' = alerts_table
          /\ trace' = Append(trace, "save_alerts raised")
          /\ result' = <<ErrorResult(now, "save_alerts")>>
    /\ pc' = "idle"
    /\ results' = <<>>
    /\ all_data' = <<>>
    /\ alerts' = <<>>
    /\ UNCHANGED <<now, store, cycles, before, biasVars, alertVars, textVars, txnVars>>
    /\ response' = <<>>

Next ==
    \/ Tick
    \/ Collect
    \/ SaveSentimentData
    \/ GenerateAlertsStep
    \/ SaveAlertsAndReturn

Spec == Init /\ [][Next]_vars

-----------------------------------------------------------------------------
(* SpecLive: run_analysis_cycle with the three collections of line 37 as   *)
(* tasks that complete one by one, in any order, while the cycle waits in  *)
(* asyncio.gather.  A task completes by returning its list or by raising   *)
(* (a timeout of the collaborator is an exception like any other).  The    *)
(* fairness conditions say that a task that can complete does, which is    *)
(* the proviso of the claim about termination, and that the cycle, which   *)
(* is straight-line code after the gather, goes on to its next statement.  *)

MaxLiveCycles == 1      \* cycles started

\* The database file outlives the process: at start the store is empty or
\* holds the one tweet an earlier run saved (one record raises no alert).
StoredAtStart ==
    {<<>>, <<Normalize("twitter", -910, "Ikeja", 0, 700, "crime")>>}

InitLive ==
    /\ now = 0 /\ store \in StoredAtStart /\ alerts_table = <<>> /\ pc = "idle"
    /\ results = <<>> /\ all_data = <<>> /\ alerts = <<>> /\ result = <<>> /\ cycles = 0
    /\ trace = <<>> /\ before = <<>> /\ response = <<>>
    /\ BiasIdle /\ AlertIdle /\ TextIdle /\ TxnIdle

\* A task of the gather that has not completed yet
NotDone == [raised |-> FALSE, items |-> <<>>, running |-> TRUE]

IsDone(r) == "running" \notin DOMAIN r

TaskResults(i, t) ==
    CASE i = 1 -> TwitterResults(t)
      [] i = 2 -> NewsResults(t)
      [] i = 3 -> GovernmentResults(t)

GatherDoneUnlessRaised(rs) == \A i \in 1..Len(rs) : IsDone(rs[i]) /\ ~rs[i].raised

\* line 37: asyncio.gather(*tasks, return_exceptions=True) returns when
\* every task has returned or raised
GatherDone(rs) == \A i \in 1..Len(rs) : IsDone(rs[i])

\* lines 25-37: the cycle starts its three tasks and awaits the gather
StartCycle ==
    /\ pc = "idle"
    /\ cycles < MaxLiveCycles
    /\ pc' = "collecting"
    /\ cycles' = cycles + 1
    /\ results' = <<NotDone, NotDone, NotDone>>
    /\ before' = <<[store |-> store, alerts_table |-> alerts_table]>>
    /\ trace' = <<>>
    /\ result' = <<>>
    /\ UNCHANGED <<now, store, alerts_table, all_data, alerts,
                   biasVars, alertVars, textVars, txnVars>>
    /\ response' = <<>>

\* one of the collections returns its list or raises
TaskCompletes(i) ==
    /\ pc = "collecting"
    /\ ~IsDone(results[i])
    /\ \E r \in TaskResults(i, now) : results' = [results EXCEPT ![i] = r]
    /\ UNCHANGED <<now, store, alerts_table, pc, all_data, alerts, result, cycles, trace,
                   before, biasVars, alertVars, textVars, txnVars>>
    /\ response' = <<>>

\* lines 37-54: the gather returns, the lists are merged, and with no item
\* at all the cycle returns its 'warning' result
GatherReturns ==
    /\ pc = "collecting"
    /\ GatherDone(results)
    /\ LET data == Gather(results)
       IN  /\ all_data' = data
           /\ trace' = <<"collect">> \o CollectionErrors(results)
           /\ IF data = <<>>
              THEN /\ pc' = "idle"
                   /\ results' = <<>>
                   /\ result' = <<[processed_items |-> 0, alerts_generated |-> 0,
                                   timestamp |-> now, status |-> "warning",
                                   message |-> "No data collected"]>>
              ELSE /\ pc' = "save_sentiment_data"
                   /\ results' = results
                   /\ result' = result
    /\ UNCHANGED <<now, store, alerts_table, alerts, cycles, before,
                   biasVars, alertVars, textVars, txnVars>>
    /\ response' = <<>>

NextLive ==
    \/ StartCycle
    \/ \E i \in 1..3 : TaskCompletes(i)
    \/ GatherReturns
    \/ SaveSentimentData
    \/ GenerateAlertsStep
    \/ SaveAlertsAndReturn

SpecLive ==
    /\ InitLive /\ [][NextLive]_vars
    /\ \A i \in 1..3 : WF_vars(TaskCompletes(i))
    /\ WF_vars(GatherReturns)
    /\ WF_vars(SaveSentimentData)
    /\ WF_vars(GenerateAlertsStep)
    /\ WF_vars(SaveAlertsAndReturn)

-----------------------------------------------------------------------------
(* SpecQuery: the cycles of Spec, and between their steps the query        *)
(* handlers (the Flask routes run beside the scheduler thread), each with  *)
(* SQLite serving the call or not.                                         *)

QueryVarsUnchanged ==
    UNCHANGED <<now, store, alerts_table, pc, results, all_data, alerts, result, cycles,
                trace, before, biasVars, alertVars, textVars, txnVars>>

\* manager.py lines 138-158, as called by the routes with hours = 24
QueryRecentSentiment ==
    /\ \E ok \in BOOLEAN :
          response' = <<[query |-> "get_recent_sentiment", failed |-> ~ok,
                         value |-> GetRecentSentiment(store, now, 24, ok)]>>
    /\ QueryVarsUnchanged

\* manager.py lines 160-196, as called by the routes with hours = 24
QueryAreaAnalysis ==
    /\ \E ok \in BOOLEAN :
          \E rows \in GetAreaAnalysis(store, now, 24, ok) :
             response' = <<[query |-> "get_area_analysis", failed |-> ~ok,
                            value |-> rows]>>
    /\ QueryVarsUnchanged

\* manager.py lines 198-218
QueryActiveAlerts ==
    /\ \E ok \in BOOLEAN :
          response' = <<[query |-> "get_active_alerts", failed |-> ~ok,
                         value |-> GetActiveAlerts(alerts_table, now, ok)]>>
    /\ QueryVarsUnchanged

\* sentiment_analyzer.py lines 96-143: the two store calls, then the status
QueryCurrentStatus ==
    /\ \E ok1, ok2 \in BOOLEAN :
          LET recent_data   == GetRecentSentiment(store, now, 24, ok1)
              active_alerts == GetActiveAlerts(alerts_table, now, ok2)
          IN  response' = <<[query |-> "get_current_status",
                             failed |-> ~ok1 \/ ~ok2,
                             value |-> GetCurrentStatus(recent_data, active_alerts)]>>
    /\ QueryVarsUnchanged

\* manager.py lines 255-295, as called by the routes with hours = 24
QuerySourceBreakdown ==
    /\ \E ok \in BOOLEAN :
          response' = <<[query |-> "get_source_breakdown", failed |-> ~ok,
                         value |-> GetSourceBreakdown(store, now, 24, ok)]>>
    /\ QueryVarsUnchanged

NextQuery ==
    \/ Next
    \/ QueryRecentSentiment
    \/ QueryAreaAnalysis
    \/ QueryActiveAlerts
    \/ QueryCurrentStatus
    \/ QuerySourceBreakdown

SpecQuery == Init /\ [][NextQuery]_vars

-----------------------------------------------------------------------------
(* SpecStore: the query handlers on every content of table sentiment_data  *)
(* of at most MaxRows rows, at hour 24.  A row is a crime tweet (adjusted  *)
(* -0.742), a traffic news item (-0.78) or a government announcement       *)
(* (0.742), in Ikeja or Yaba, stamped hour 0 (outside the 24-hour window)  *)
(* or hour 24 (inside), or a tweet with no area found; two areas, and two  *)
(* sources, can have equal means and equal counts.                         *)

MaxRows == 3

StoreRecords ==
    {Normalize(k[1], k[2], loc, ts, k[3], k[4]) :
        k \in {<<"twitter", -910, 700, "crime">>, <<"news", -1000, 850, "traffic">>,
               <<"government", 670, 900, "general">>},
        loc \in {"Ikeja", "Yaba"}, ts \in {0, 24}}
    \cup {Normalize("twitter", -910, "Unknown", 24, 700, "crime")}

InitStore ==
    /\ now = 24
    /\ store \in SeqsUpTo(StoreRecords, MaxRows)
    /\ alerts_table = <<>> /\ pc = "idle"
    /\ results = <<>> /\ all_data = <<>> /\ alerts = <<>> /\ result = <<>> /\ cycles = 0
    /\ trace = <<>> /\ before = <<>> /\ response = <<>>
    /\ BiasIdle /\ AlertIdle /\ TextIdle /\ TxnIdle

NextStore ==
    \/ QueryRecentSentiment
    \/ QueryAreaAnalysis
    \/ QueryActiveAlerts
    \/ QueryCurrentStatus
    \/ QuerySourceBreakdown

SpecStore == InitStore /\ [][NextStore]_vars

-----------------------------------------------------------------------------
(* SpecTxn: save_sentiment_data called by two threads at the same time,    *)
(* each with its own DatabaseManager and so its own connection to the one  *)
(* database file, and get_recent_sentiment called meanwhile.  The steps    *)
(* are the statements of manager.py lines 91-110.  The sqlite3 module      *)
(* opens a transaction before the first INSERT of a connection; SQLite     *)
(* lets one connection at a time hold the write lock, shows the rows of an *)
(* open transaction to no other connection, and rolls the transaction back *)
(* when the connection goes away without a commit.  store is the committed *)
(* rows; the rows of conn[p].data at positions committed + 1 .. inserted   *)
(* are written by p's connection and not committed.  Each call's records   *)
(* carry the time of their collection, now, which differs from call to     *)
(* call.                                                                   *)

MaxSaves == 2       \* calls of save_sentiment_data started

MaxTxnBatch == 2    \* records in one call's batch

\* A batch is made of records of one kind: the claims checked under SpecTxn
\* count the rows of a batch and do not read their fields
TxnRecords(t) == {Normalize("twitter", -910, "Ikeja", t, 700, "crime")}

\* The rows p's connection has written and not committed
Pending(c) == SubSeq(c.data, c.committed + 1, c.inserted)

CanWriteUnlocked(p) == TRUE

\* SQLite grants the write lock to a connection when no other holds it
CanWrite(p) == write_lock \in {"", p}

CommitAfterEachInsert(inserted, n) == TRUE

\* lines 93-104: conn.commit() comes after the loop over all items
CommitPoint(inserted, n) == inserted = n

InitTxn ==
    /\ now = 0
    /\ store = <<>> /\ alerts_table = <<>> /\ pc = "idle"
    /\ results = <<>> /\ all_data = <<>> /\ alerts = <<>> /\ result = <<>> /\ cycles = 0
    /\ trace = <<>> /\ before = <<>> /\ response = <<>>
    /\ TxnIdle
    /\ BiasIdle /\ AlertIdle /\ TextIdle

TxnVarsUnchanged ==
    UNCHANGED <<alerts_table, pc, results, all_data, alerts, result, cycles, trace, before,
                biasVars, alertVars, textVars>>

\* lines 85-91: save_sentiment_data(data) with a non-empty list connects
Connect(p) ==
    /\ conn[p].pc \in {"closed", "returned", "rolled_back"}
    /\ now < MaxSaves
    /\ now' = now + 1
    /\ \E data \in SeqsUpTo(TxnRecords(now'), MaxTxnBatch) \ {<<>>} :
          conn' = [conn EXCEPT ![p] = [pc |-> "insert", data |-> data,
                                       inserted |-> 0, committed |-> 0]]
    /\ UNCHANGED <<store, response, write_lock>>
    /\ TxnVarsUnchanged

\* lines 93-102: one conn.execute(INSERT ...) of the loop
Insert(p) ==
    /\ conn[p].pc = "insert"
    /\ conn[p].inserted < Len(conn[p].data)
    /\ CanWrite(p)
    /\ conn' = [conn EXCEPT ![p].inserted = @ + 1]
    /\ write_lock' = p
    /\ UNCHANGED <<now, store, response>>
    /\ TxnVarsUnchanged

\* lines 93-102, 108-110: conn.execute raises ('database is locked' after
\* the busy timeout when another connection holds the write lock, or any
\* other error); the except logs and raises again, with the connection
\* neither committed nor closed
InsertRaises(p) ==
    /\ conn[p].pc = "insert"
    /\ conn[p].inserted < Len(conn[p].data)
    /\ conn' = [conn EXCEPT ![p].pc = "raised"]
    /\ UNCHANGED <<now, store, response, write_lock>>
    /\ TxnVarsUnchanged

\* lines 104-106: conn.commit(), conn.close(), return
Commit(p) ==
    /\ conn[p].pc = "insert"
    /\ conn[p].inserted > conn[p].committed
    /\ CommitPoint(conn[p].inserted, Len(conn[p].data))
    /\ store' = store \o Pending(conn[p])
    /\ conn' = [conn EXCEPT ![p].committed = conn[p].inserted,
                            ![p].pc = IF conn[p].inserted = Len(conn[p].data)
                                      THEN "returned" ELSE "insert"]
    /\ write_lock' = ""
    /\ UNCHANGED <<now, response>>
    /\ TxnVarsUnchanged

\* lines 104, 108-110: conn.commit() raises
CommitRaises(p) ==
    /\ conn[p].pc = "insert"
    /\ conn[p].inserted = Len(conn[p].data)
    /\ conn[p].inserted > conn[p].committed
    /\ conn' = [conn EXCEPT ![p].pc = "raised"]
    /\ UNCHANGED <<now, store, response, write_lock>>
    /\ TxnVarsUnchanged

\* The connection of a call that raised is released with the frame of the
\* call: sqlite3 closes it, which rolls its open transaction back
Rollback(p) ==
    /\ conn[p].pc = "raised"
    /\ conn' = [conn EXCEPT ![p].pc = "rolled_back", ![p].inserted = conn[p].committed]
    /\ write_lock' = IF write_lock = p THEN "" ELSE write_lock
    /\ UNCHANGED <<now, store, response>>
    /\ TxnVarsUnchanged

\* manager.py lines 138-158: get_recent_sentiment(24) on a connection of its
\* own: one SELECT over the committed rows.  The response also records the
\* rows that were written and not committed when the SELECT ran.
ReadRecentSentiment ==
    /\ \E ok \in BOOLEAN :
          response' = <<[query |-> "get_recent_sentiment", failed |-> ~ok,
                         value |-> GetRecentSentiment(store, now, 24, ok),
                         uncommitted |-> Pending(conn["scheduler"]) \o Pending(conn["request"])]>>
    /\ UNCHANGED <<now, store, conn, write_lock>>
    /\ TxnVarsUnchanged

NextTxn ==
    \/ \E p \in Writers : Connect(p)
    \/ \E p \in Writers : Insert(p)
    \/ \E p \in Writers : InsertRaises(p)
    \/ \E p \in Writers : Commit(p)
    \/ \E p \in Writers : CommitRaises(p)
    \/ \E p \in Writers : Rollback(p)
    \/ ReadRecentSentiment

SpecTxn == InitTxn /\ [][NextTxn]_vars

-----------------------------------------------------------------------------
(* Claims about the cycle and the store *)

WithoutUnknown(rows) == SelectSeq(rows, LAMBDA r : r.location # "Unknown")

\* C7: no alert that generate_alerts returns or that is stored has area
\* 'Unknown', no row of get_area_analysis has area 'Unknown', and both
\* results are the ones obtained with the 'Unknown' records removed.
C7_UnknownNeverInAreaResults ==
    /\ \A i \in 1..Len(alerts_table) : alerts_table[i].area # "Unknown"
    /\ \A i \in 1..Len(alerts) : alerts[i].area # "Unknown"
    /\ pc = "save_alerts" => alerts = GenerateAlerts(WithoutUnknown(all_data), now)
    /\ \A ok \in BOOLEAN :
          LET analysis == GetAreaAnalysis(store, now, 24, ok)
          IN  /\ \A rows \in analysis :
                    \A i \in 1..Len(rows) : rows[i].area # "Unknown"
              /\ analysis = GetAreaAnalysis(WithoutUnknown(store), now, 24, ok)

\* C7 witness: generate_alerts has returned nothing for a batch of three
\* 'Unknown' records of mean -0.853, in a store that holds an earlier alert
\* and whose area analysis has a row.
C7_Witness ==
    /\ pc = "save_alerts"
    /\ GroupSize(all_data, "Unknown") = 3
    /\ GroupTotal(all_data, "Unknown") <= -500 * 3
    /\ alerts = <<>>
    /\ Len(alerts_table) > 0
    /\ GetAreaAnalysis(store, now, 24, TRUE) # {<<>>}

\* C10: when save_sentiment_data raises, the cycle ends there with status
\* 'error' and the error text, generate_alerts and save_alerts are not
\* called, and the alerts table is as it was when the cycle began.
C10_SaveFailureAbortsCycle ==
    (trace # <<>> /\ trace[Len(trace)] = "save_sentiment_data raised") =>
        /\ pc = "idle"
        /\ result # <<>>
        /\ result[1].status = "error"
        /\ result[1].error = "save_sentiment_data"
        /\ \A i \in 1..Len(trace) : trace[i] \notin {"generate_alerts", "save_alerts"}
        /\ alerts_table = before[1].alerts_table
        /\ store = before[1].store

\* C10 witness: a second cycle has returned 'error' from a failed
\* save_sentiment_data, after a first cycle that stored records and an alert.
C10_Witness ==
    /\ trace = <<"collect", "save_sentiment_data raised">>
    /\ cycles = 2
    /\ Len(store) = 3 /\ Len(alerts_table) = 1
    /\ result # <<>> /\ result[1].status = "error"

-----------------------------------------------------------------------------
(* Claims about the query handlers *)

\* The records of the store inside the 24-hour window at time t
Window(rows, t) == SelectSeq(rows, LAMBDA r : InWindow(r, t, 24))

\* C8: get_current_status answers 'no_data' when no record of the store is
\* inside the window, and when at least one is it answers 'healthy' with
\* the means of adjusted sentiment, raw sentiment and confidence over the
\* records of the window.
C8_StatusNoDataIffEmptyWindow ==
    (response # <<>> /\ response[1].query = "get_current_status") =>
        LET w == Window(store, now)
            v == response[1].value
        IN  IF w = <<>>
            THEN v.status = "no_data"
            ELSE /\ v.status = "healthy"
                 /\ v.total_sources = Len(w)
                 /\ v.overall_sentiment
                      = Round3(SumSeq(Column(w, "adjusted_sentiment")), Len(w))
                 /\ v.raw_sentiment
                      = Round3(SumSeq(Column(w, "raw_sentiment")), Len(w))
                 /\ v.confidence = Round3(SumSeq(Column(w, "confidence")), Len(w))

\* What a handler returns when the tables hold no row
EmptyWindowResult(query) ==
    IF query = "get_current_status" THEN GetCurrentStatus(<<>>, <<>>) ELSE <<>>

\* C9: a query during which the store is unavailable gives its caller a
\* result other than the one the same query gives for an empty window.
C9_FailureDistinguishable ==
    (response # <<>> /\ response[1].failed) =>
        response[1].value # EmptyWindowResult(response[1].query)

-----------------------------------------------------------------------------
(* Claims about the collection step and the result of a cycle *)

\* What one task contributed: nothing when it raised
ItemsOf(r) == IF r.raised THEN <<>> ELSE r.items

\* C11: when the collection of a source raises, the cycle goes on: that
\* source contributes no record and one error line is logged for it, the
\* records of the other sources are all saved and given to generate_alerts,
\* and the cycle's result is 'error' only when a save raised.
C11_CollectionFailureIsolated ==
    /\ results # <<>> =>
          /\ pc \in {"save_sentiment_data", "generate_alerts", "save_alerts"}
          /\ all_data = ItemsOf(results[1]) \o ItemsOf(results[2]) \o ItemsOf(results[3])
          /\ \A i \in 1..3 :
                results[i].raised =>
                   /\ \E k \in 1..Len(trace) : trace[k] = "Collection error: " \o Tasks[i]
                   /\ \A k \in 1..Len(all_data) : all_data[k].source # Tasks[i]
          /\ pc \in {"generate_alerts", "save_alerts"} =>
                store = before[1].store \o all_data
          /\ pc = "save_alerts" => alerts = GenerateAlerts(all_data, now)
    /\ (pc = "idle" /\ result # <<>> /\ result[1].status = "error") =>
          trace[Len(trace)] \in {"save_sentiment_data raised", "save_alerts raised"}
    /\ (pc = "idle" /\ trace # <<>> /\ trace[Len(trace)] \in {"generate_alerts", "save_alerts"}) =>
          /\ result[1].status = "success"
          /\ result[1].processed_items = Len(store) - Len(before[1].store)
          /\ result[1].processed_items > 0

\* C11 witness: a cycle in which collect_twitter_data raised has saved the
\* three records of the two other sources and has returned 'success'.
C11_Witness ==
    /\ pc = "idle"
    /\ trace = <<"collect", "Collection error: twitter", "save_sentiment_data",
                 "generate_alerts">>
    /\ Len(store) = Len(before[1].store) + 3
    /\ result[1].status = "success"
    /\ result[1].processed_items = 3

\* C12: every path of run_analysis_cycle ends with a returned dict that has
\* processed_items, alerts_generated and status, and has error whenever
\* status is 'error'; a cycle that has ended has returned one.
C12_CycleReturnsStructuredResult ==
    /\ result # <<>> =>
          /\ {"processed_items", "alerts_generated", "status"} \subseteq DOMAIN result[1]
          /\ result[1].status \in {"success", "warning", "error"}
          /\ result[1].status = "error" => "error" \in DOMAIN result[1]
    /\ (pc = "idle" /\ cycles > 0) => result # <<>>
    /\ pc \in {"idle", "save_sentiment_data", "generate_alerts", "save_alerts"}

\* C12 witness: a second cycle has returned 'error' with the error text
\* from a save_alerts that raised, after its records were saved.
C12_Witness ==
    /\ pc = "idle" /\ cycles = 2
    /\ trace[Len(trace)] = "save_alerts raised"
    /\ result[1].status = "error" /\ result[1].error = "save_alerts"
    /\ Len(store) > Len(before[1].store)

-----------------------------------------------------------------------------
(* Claims about the aggregate queries *)

\* C13: two calls of get_area_analysis with nothing done to the store in
\* between return the same list (same rows, same values, same order), and
\* no query changes the records or the alerts of the store.
C13_AreaAnalysisRepeatable ==
    [][/\ response' # <<>> => (store' = store /\ alerts_table' = alerts_table)
       /\ (/\ response # <<>> /\ response' # <<>>
           /\ response[1].query = "get_area_analysis"
           /\ response'[1].query = "get_area_analysis")
          => response'[1].value = response[1].value]_vars

AbsDiff(a, b) == IF a >= b THEN a - b ELSE b - a

\* C14: for a non-empty window the percentages of the groups of
\* get_source_breakdown sum to 100 within half a tenth for each group, each
\* percentage is the group's count over the total count to the nearest
\* tenth, and the groups are in descending order of count; with a total of
\* 0 every percentage is 0.
C14_SourceBreakdownPercentages ==
    (response # <<>> /\ response[1].query = "get_source_breakdown") =>
        LET v     == response[1].value
            total == SumSeq(Column(v, "count"))
        IN  /\ Window(store, now) # <<>> =>
                 2 * AbsDiff(SumSeq(Column(v, "percentage")), 1000) <= Len(v)
            /\ \A i \in 1..Len(v) :
                  IF total = 0 THEN v[i].percentage = 0
                  ELSE 2 * AbsDiff(v[i].percentage * total, v[i].count * 1000) <= total
            /\ \A i, j \in 1..Len(v) : i < j => v[i].count >= v[j].count


-----------------------------------------------------------------------------
(* C15: category classification checks the keyword sets in the order       *)
(* traffic, crime, law_enforcement, emergency and returns the first set    *)
(* with at least one hit, else 'general', whatever the number of hits; the *)
(* result is one of traffic, crime, law_enforcement, emergency, general.   *)
(* Each of the two classifiers is held to its own keyword sets.            *)

PriorityCategories == <<"traffic", "crime", "law_enforcement", "emergency">>

\* The first of the four sets with a keyword in the text, by the sets of ks
FirstHit(ks, text_lower) ==
    LET hit == {i \in 1..4 : \E k \in 1..Len(ks[i]) : Contains(ks[i][k], text_lower)}
    IN  IF hit = {} THEN "general"
        ELSE PriorityCategories[CHOOSE i \in hit : \A j \in hit : i <= j]

SecurityIssueKeywords ==
    << <<"traffic", "road", "accident", "jam">>, <<"crime", "theft", "robbery", "steal">>,
       <<"police", "law", "arrest">>, <<"emergency", "fire", "medical">> >>

C15_CategoryPriority ==
    /\ CategorizeSecurityIssue("robbery during traffic jam") = "traffic"
    /\ \A i \in 1..Len(extracted) :
          LET e == extracted[i]
              t == Lower(text_arg)
          IN  /\ e.function = "categorize_security_issue" =>
                    /\ e.value = FirstHit(SecurityIssueKeywords, t)
                    /\ e.value \in {"traffic", "crime", "law_enforcement", "emergency", "general"}
              /\ e.function = "categorize_sentiment_topic" =>
                    /\ e.value = FirstHit([k \in 1..4 |-> TopicCategories[k][2]], t)
                    /\ e.value \in {"traffic", "crime", "law_enforcement", "emergency", "general"}

-----------------------------------------------------------------------------
(* C16: in area resolution a full area name present in the text wins over  *)
(* an alias present in the text, and an alias wins over the preposition    *)
(* patterns; among several area names present the earliest entry of the    *)
(* area table wins; the result is 'Unknown' when nothing matches and is    *)
(* otherwise a member of the area table.                                   *)

\* The positions of the area names that occur in the text
NamesPresent(areas, text_lower) ==
    {i \in 1..Len(areas) : Contains(Lower(areas[i]), text_lower)}

\* The positions of the alias entries one of whose aliases occurs in the text
AliasesPresent(text_lower) ==
    {i \in 1..Len(GetAreaAliases) :
        \E k \in 1..Len(GetAreaAliases[i][2]) :
            Contains(Lower(GetAreaAliases[i][2][k]), text_lower)}

C16_AreaResolutionPrecedence ==
    \A i \in 1..Len(extracted) :
        LET e == extracted[i]
            t == Lower(text_arg)
        IN  /\ e.function = "extract_location" =>
                  LET names == NamesPresent(lagos_areas, t)
                  IN  /\ names # {} =>
                            e.value = lagos_areas[CHOOSE n \in names : \A m \in names : n <= m]
                      /\ names = {} => e.value = "Unknown"
            /\ e.function = "extract_lagos_location" =>
                  LET names   == NamesPresent(GetLagosAreas, t)
                      aliases == AliasesPresent(t)
                      ws      == Words(t)
                  IN  /\ names # {} =>
                            e.value = GetLagosAreas[CHOOSE n \in names : \A m \in names : n <= m]
                      /\ (names = {} /\ aliases # {}) =>
                            e.value \in {GetAreaAliases[a][1] : a \in aliases}
                      /\ (names = {} /\ aliases = {} /\ Len(ws) < 2) => e.value = "Unknown"
                      /\ e.value \in Range(GetLagosAreas) \cup {"Unknown"}
                      /\ e.value = "Unknown" => (names = {} /\ aliases = {})

\* An area name (Yaba) and an alias of another area (festac, of Amuwo-Odofin)
\* in one text: the name wins
C16_Witness ==
    /\ text_arg = "festac yaba"
    /\ extracted # <<>>
    /\ extracted[1].function = "extract_lagos_location"
    /\ extracted[1].value = "Yaba"

-----------------------------------------------------------------------------
(* C20: one call of generate_alerts emits exactly one alert for each       *)
(* qualifying area (not 'Unknown', at least minimum_sources records, mean  *)
(* at or below medium_threshold) and none for any other area; the alert's  *)
(* confidence is the mean confidence of the group, its alert_type the      *)
(* dominant category and resolved is false.                                *)

GroupConfidence(data, area) ==
    SumSeq(Column(SelectSeq(data, LAMBDA r : r.location = area), "confidence"))

CategoryCount(data, area, cat) ==
    Cardinality({i \in 1..Len(data) : data[i].location = area /\ data[i].category = cat})

Qualifies(data, area) ==
    /\ area # "Unknown"
    /\ GroupSize(data, area) >= 3
    /\ GroupTotal(data, area) <= -300 * GroupSize(data, area)

-----------------------------------------------------------------------------
(* C17: read-your-writes.  Every record a save_sentiment_data that has     *)
(* returned put into the store, and whose timestamp is inside the window,  *)
(* is returned by a later get_recent_sentiment and counted by the          *)
(* aggregate queries; likewise every unresolved alert of the last 24 hours *)
(* put there by a save_alerts that has returned is returned by a later     *)
(* get_active_alerts.                                                      *)

SameRecords(a, b) == \A r \in Range(a) \cup Range(b) : Count(a, r) = Count(b, r)

C17_ReadYourWrites ==
    response # <<>> =>
        LET v == response[1].value
            w == Window(store, now)
        IN  /\ response[1].query = "get_recent_sentiment" => SameRecords(v, w)
            /\ response[1].query = "get_area_analysis" =>
                  SumSeq(Column(v, "sources")) = Len(SelectSeq(w, LAMBDA r : r.location # "Unknown"))
            /\ response[1].query = "get_source_breakdown" =>
                  SumSeq(Column(v, "count")) = Len(w)
            /\ response[1].query = "get_active_alerts" =>
                  SameRecords(v, SelectSeq(alerts_table,
                                           LAMBDA a : InWindow(a, now, 24) /\ a.resolved = FALSE))

-----------------------------------------------------------------------------
(* Claims about concurrent appends *)

\* The rows of a list that belong to the batch of p's current (or last) call
RowsOfBatch(rows, p) ==
    IF conn[p].data = <<>> THEN 0
    ELSE Cardinality({i \in 1..Len(rows) : rows[i].timestamp = conn[p].data[1].timestamp})

\* C18: a batch append is atomic towards readers.  A get_recent_sentiment
\* that runs while batches are being appended returns none of the rows that
\* are written and not committed, and of every batch either no record or
\* all of them; a save_sentiment_data that raised leaves none of its batch's
\* records in the store.
C18_BatchAppendAtomic ==
    /\ response # <<>> =>
          /\ \A r \in Range(response[1].uncommitted) : r \notin Range(response[1].value)
          /\ \A p \in Writers :
                RowsOfBatch(response[1].value, p) \in {0, Len(conn[p].data)}
    /\ \A p \in Writers :
          /\ conn[p].pc \in {"raised", "rolled_back"} => RowsOfBatch(store, p) = 0
          /\ conn[p].pc = "insert" => RowsOfBatch(store, p) = 0
          /\ conn[p].pc = "returned" => RowsOfBatch(store, p) = Len(conn[p].data)

\* C18 witness: a query ran while the scheduler's call had written one of
\* its two records; it returned the two records of the request's batch,
\* committed before, and neither of the scheduler's; then the scheduler's
\* call raised at its second INSERT and the store holds the request's batch
\* only
C18_Witness ==
    /\ conn["scheduler"].pc = "rolled_back"
    /\ Len(conn["scheduler"].data) = 2
    /\ conn["request"].pc = "returned"
    /\ response # <<>> /\ ~response[1].failed
    /\ Len(response[1].uncommitted) = 1
    /\ response[1].uncommitted[1].timestamp = conn["scheduler"].data[1].timestamp
    /\ response[1].value = conn["request"].data
    /\ Len(response[1].value) = 2
    /\ store = conn["request"].data

\* C19: store appends are serialized.  At most one connection at a time
\* has written rows that are not committed, the rows of one batch are next
\* to each other in the store, and the store grows only by all the records
\* of one call at once (one transaction for each batch).
C19_AppendsSerialized ==
    /\ \A p, q \in Writers :
          (p # q /\ Pending(conn[p]) # <<>>) => Pending(conn[q]) = <<>>
    /\ \A i, k \in 1..Len(store) :
          (i < k /\ store[i].timestamp = store[k].timestamp) =>
              \A j \in i..k : store[j].timestamp = store[i].timestamp
    /\ \A p \in Writers :
          conn[p].pc = "returned" =>
              \E i \in 1..Len(store) :
                  SubSeq(store, i, i + Len(conn[p].data) - 1) = conn[p].data
    /\ \E n \in 0..MaxSaves : \E sizes \in [1..n -> 1..MaxTxnBatch] :
          /\ Len(store) = SumSeq(sizes)
          /\ \A b \in 1..n :
                LET first == SumSeq(SubSeq(sizes, 1, b - 1)) + 1
                IN  /\ \A j \in first..(first + sizes[b] - 1) :
                          store[j].timestamp = store[first].timestamp
                    /\ \A j \in 1..Len(store) :
                          store[j].timestamp = store[first].timestamp
                              => j \in first..(first + sizes[b] - 1)

\* C19 witness: the scheduler's call connected first and the request's
\* second; the request's two records were committed first, and both
\* batches are in the store, each in one piece
C19_Witness ==
    /\ conn["scheduler"].pc = "returned" /\ conn["request"].pc = "returned"
    /\ Len(conn["scheduler"].data) = 2 /\ Len(conn["request"].data) = 2
    /\ conn["scheduler"].data[1].timestamp < conn["request"].data[1].timestamp
    /\ store = conn["request"].data \o conn["scheduler"].data

-----------------------------------------------------------------------------
(* C30: for every source of the calibration table adjust_sentiment is      *)
(* monotonically non-decreasing in raw_sentiment over [-1, 1], the branch  *)
(* switch at 0 included: no raw score below the one of the call gets a     *)
(* higher adjusted score.                                                  *)

C30_AdjustMonotone ==
    (adjusted # <<>> /\ source \in KnownSources) =>
        \A r \in RawSentiments :
            r <= raw_sentiment => AdjustSentiment(r, source) <= adjusted[1]

-----------------------------------------------------------------------------
(* Claims about alerts across cycles and the steps of a cycle *)

\* The records the cycle that has just returned 'success' put into the store
CycleBatch == SubSeq(store, Len(before[1].store) + 1, Len(store))

\* C21: there is no cross-cycle suppression.  The alerts of a cycle are
\* those generate_alerts computes from the batch of that cycle, whatever the
\* store and the alerts table hold; a cycle that ends with 'success' has
\* appended exactly them, also for an area for which an unresolved alert is
\* already stored.
C21_NoCrossCycleSuppression ==
    /\ pc = "save_alerts" => alerts = GenerateAlerts(all_data, now)
    /\ (pc = "idle" /\ result # <<>> /\ result[1].status = "success") =>
          alerts_table = before[1].alerts_table
                           \o GenerateAlerts(CycleBatch, CycleBatch[1].timestamp)

\* C21 witness: the second cycle has ended with 'success' and the alerts
\* table holds two unresolved alerts for Ikeja, the first stored by the
\* first cycle and the second appended by the second
C21_Witness ==
    /\ pc = "idle" /\ cycles = 2
    /\ result # <<>> /\ result[1].status = "success"
    /\ Len(before[1].alerts_table) = 1
    /\ Len(alerts_table) = 2
    /\ \A k \in 1..2 : alerts_table[k].area = "Ikeja" /\ alerts_table[k].resolved = FALSE

-----------------------------------------------------------------------------
(* C22: generate_alerts returns for every batch, and every qualifying      *)
(* group gets its alert also when the category of all its records is       *)
(* missing, with alert_type 'general' then; the alerts of the other        *)
(* qualifying areas of the batch are emitted as well.                      *)

AllCategoriesMissing(data, area) ==
    \A i \in 1..Len(data) : data[i].location = area => data[i].category = NoneValue

C22_MissingCategoryFallsBack ==
    generated # <<>> =>
        \A area \in BatchAreas(sentiment_data) :
            Qualifies(sentiment_data, area) =>
                /\ Cardinality(AlertsFor(generated[1], area)) = 1
                /\ AllCategoriesMissing(sentiment_data, area) =>
                      \A i \in AlertsFor(generated[1], area) :
                          generated[1][i].alert_type = "general"

-----------------------------------------------------------------------------
(* C23: the alert_type of an alert is a category of highest frequency in   *)
(* the alert's group, and among several categories of that frequency the   *)
(* one whose first record comes earliest in the batch.                     *)

\* The position in the batch of the first record of the area with the category
FirstRecord(data, area, cat) ==
    CHOOSE i \in 1..Len(data) :
        /\ data[i].location = area /\ data[i].category = cat
        /\ \A j \in 1..(i - 1) : ~(data[j].location = area /\ data[j].category = cat)

C23_DominantCategoryTieBreak ==
    generated # <<>> =>
        \A i \in 1..Len(generated[1]) :
            LET area == generated[1][i].area
                type == generated[1][i].alert_type
                cats == {sentiment_data[k].category : k \in 1..Len(sentiment_data)}
            IN  /\ CategoryCount(sentiment_data, area, type) > 0
                /\ \A cat \in cats \ {type} :
                      \/ CategoryCount(sentiment_data, area, cat)
                           < CategoryCount(sentiment_data, area, type)
                      \/ /\ CategoryCount(sentiment_data, area, cat)
                              = CategoryCount(sentiment_data, area, type)
                         /\ FirstRecord(sentiment_data, area, type)
                              < FirstRecord(sentiment_data, area, cat)

\* C23 witness: four Ikeja records, traffic, crime, crime, traffic: the two
\* categories tie at two records each and the alert is of type 'traffic',
\* the category of the first record
C23_Witness ==
    /\ generated # <<>>
    /\ Len(sentiment_data) = 4
    /\ \A k \in 1..4 : sentiment_data[k].location = "Ikeja"
                        /\ sentiment_data[k].adjusted_sentiment = -700
    /\ sentiment_data[1].category = "traffic" /\ sentiment_data[2].category = "crime"
    /\ sentiment_data[3].category = "crime" /\ sentiment_data[4].category = "traffic"
    /\ Len(generated[1]) = 1
    /\ generated[1][1].alert_type = "traffic"

-----------------------------------------------------------------------------
(* C24: language detection counts the hits of the two dialect keyword      *)
(* lists and returns the dialect of the strictly higher count when that    *)
(* count is > 0, and 'english' when the counts are equal, both zero or     *)
(* both positive.  Each detector is held to its own two lists.             *)

ByHigherCount(pidgin_count, yoruba_count) ==
    IF pidgin_count > yoruba_count THEN "pidgin"
    ELSE IF yoruba_count > pidgin_count THEN "yoruba"
    ELSE "english"

C24_LanguageByHigherCount ==
    \A i \in 1..Len(extracted) :
        LET e == extracted[i]
            t == Lower(text_arg)
        IN  /\ e.function = "detect_language" =>
                  e.value = ByHigherCount(Hits(security_keywords_pidgin, t),
                                          Hits(security_keywords_yoruba, t))
            /\ e.function = "detect_nigerian_language" =>
                  e.value = ByHigherCount(Hits(pidgin_indicators, t),
                                          Hits(yoruba_indicators, t))

-----------------------------------------------------------------------------
(* C25: get_area_analysis returns one row for each area (a location other  *)
(* than 'Unknown') with at least one record in the window, holding the     *)
(* mean adjusted sentiment, the mean confidence, the number of records and *)
(* the numbers of 'crime' and of 'traffic' records of the area, and the    *)
(* rows are sorted by mean sentiment ascending.                            *)

AreaGroup(rows, area) == SelectSeq(rows, LAMBDA r : r.location = area)

C25_AreaAnalysisRows ==
    (response # <<>> /\ response[1].query = "get_area_analysis") =>
        LET v == response[1].value
            w == Window(store, now)
        IN  /\ \A area \in BatchAreas(w) \ {"Unknown"} :
                  \E i \in 1..Len(v) :
                      /\ v[i].area = area
                      /\ \A j \in 1..Len(v) : v[j].area = area => j = i
            /\ \A i \in 1..Len(v) :
                  LET g == AreaGroup(w, v[i].area)
                  IN  /\ g # <<>>
                      /\ v[i].sources = Len(g)
                      /\ v[i].sentiment = Round3(SumSeq(Column(g, "adjusted_sentiment")), Len(g))
                      /\ v[i].confidence = Round3(SumSeq(Column(g, "confidence")), Len(g))
                      /\ v[i].crime_reports
                           = Cardinality({k \in 1..Len(g) : g[k].category = "crime"})
                      /\ v[i].traffic_reports
                           = Cardinality({k \in 1..Len(g) : g[k].category = "traffic"})
            /\ \A i, j \in 1..Len(v) :
                  i < j =>
                     LET gi == AreaGroup(w, v[i].area)
                         gj == AreaGroup(w, v[j].area)
                     IN  SumSeq(Column(gi, "adjusted_sentiment")) * Len(gj)
                           <= SumSeq(Column(gj, "adjusted_sentiment")) * Len(gi)

-----------------------------------------------------------------------------
(* C26: within one cycle the steps are ordered collect, append records,    *)
(* generate alerts, append alerts: the alerts of a cycle are appended only *)
(* after the records of that cycle were appended successfully, and         *)
(* save_alerts is called only when at least one alert was generated.       *)

\* The calls of the trace, without the logged collection errors
Calls(tr) ==
    SelectSeq(tr, LAMBDA x : x \in {"collect", "save_sentiment_data",
                                     "save_sentiment_data raised", "generate_alerts",
                                     "save_alerts", "save_alerts raised"})

C26_StepOrder ==
    Calls(trace) \in
        {<<>>, <<"collect">>,
         <<"collect", "save_sentiment_data">>,
         <<"collect", "save_sentiment_data raised">>,
         <<"collect", "save_sentiment_data", "generate_alerts">>,
         <<"collect", "save_sentiment_data", "generate_alerts", "save_alerts">>,
         <<"collect", "save_sentiment_data", "generate_alerts", "save_alerts raised">>}

C26_Step ==
    /\ store' # store =>
          /\ Calls(trace) = <<"collect">>
          /\ store' = store \o all_data
    /\ alerts_table' # alerts_table =>
          /\ Calls(trace) = <<"collect", "save_sentiment_data", "generate_alerts">>
          /\ alerts # <<>>
          /\ alerts_table' = alerts_table \o alerts
          /\ store = before[1].store \o all_data
          /\ all_data # <<>>
    /\ (Calls(trace') # Calls(trace)
          /\ Calls(trace')[Len(Calls(trace'))] \in {"save_alerts", "save_alerts raised"}) =>
              /\ alerts # <<>>
              /\ Calls(trace) = <<"collect", "save_sentiment_data", "generate_alerts">>

C26_CycleStepsOrdered == [](C26_StepOrder) /\ [][C26_Step]_vars

\* C26 witness: a cycle has made its four calls in order and has appended
\* records and then an alert
C26_Witness ==
    /\ pc = "idle"
    /\ Calls(trace) = <<"collect", "save_sentiment_data", "generate_alerts", "save_alerts">>
    /\ Len(store) > Len(before[1].store)
    /\ Len(alerts_table) = Len(before[1].alerts_table) + 1

-----------------------------------------------------------------------------
(* C27: every analysis cycle eventually ends with a result, provided each  *)
(* source collection returns or fails; a source that fails contributes no  *)
(* record and does not block the cycle, and a cycle in which every source  *)
(* contributes nothing ends with processed_items 0 and leaves the store    *)
(* unchanged.                                                              *)

C27_GatherStep ==
    (pc = "collecting" /\ pc' # "collecting") =>
        /\ all_data' = ItemsOf(results[1]) \o ItemsOf(results[2]) \o ItemsOf(results[3])
        /\ store' = store /\ alerts_table' = alerts_table
        /\ (\A i \in 1..3 : ItemsOf(results[i]) = <<>>) =>
              /\ pc' = "idle"
              /\ result' # <<>>
              /\ result'[1].processed_items = 0
              /\ store' = before[1].store
              /\ alerts_table' = before[1].alerts_table

C27_CycleTerminates ==
    /\ (pc # "idle") ~> (pc = "idle" /\ result # <<>>)
    /\ [][C27_GatherStep]_vars

\* C27 witness: the twitter collection raised and the other two returned
\* nothing; the cycle has ended with its 'warning' result and the store
\* holds the one record it held at start
C27_Witness ==
    /\ pc = "idle" /\ cycles = 1
    /\ trace = <<"collect", "Collection error: twitter">>
    /\ result # <<>>
    /\ result[1].status = "warning" /\ result[1].processed_items = 0
    /\ store # <<>>
    /\ store = before[1].store

-----------------------------------------------------------------------------
(* C28: whenever run_analysis_cycle has returned status 'error' with       *)
(* processed_items 0 and alerts_generated 0, the store holds exactly the   *)
(* records and the alerts it held before the cycle, also when save_alerts  *)
(* failed after save_sentiment_data succeeded.                             *)

CycleFailed ==
    /\ pc = "idle" /\ result # <<>>
    /\ result[1].status = "error"
    /\ result[1].processed_items = 0 /\ result[1].alerts_generated = 0

C28_FailedCycleAppendsNothing ==
    CycleFailed =>
        /\ store = before[1].store
        /\ alerts_table = before[1].alerts_table

\* What does hold: a failed cycle appends no alert, and it appends no
\* record unless it was save_alerts that raised.
C28_FailedCycleAppendsNoAlert ==
    CycleFailed =>
        /\ alerts_table = before[1].alerts_table
        /\ trace[Len(trace)] # "save_alerts raised" => store = before[1].store

-----------------------------------------------------------------------------
(* C29: whenever run_analysis_cycle has returned status 'success',         *)
(* processed_items is the number of records the cycle appended to the      *)
(* store, which is the sum of the lengths of the lists of the sources that *)
(* did not fail and the sum of the counts of sources_breakdown, and        *)
(* alerts_generated is the number of alerts the cycle appended.            *)

BreakdownCount(breakdown, src) == IF src \in DOMAIN breakdown THEN breakdown[src] ELSE 0

C29_Counts ==
    (pc = "idle" /\ result # <<>> /\ result[1].status = "success") =>
        /\ Len(store) = Len(before[1].store) + result[1].processed_items
        /\ Len(alerts_table) = Len(before[1].alerts_table) + result[1].alerts_generated
        /\ DOMAIN result[1].sources_breakdown \subseteq Range(Tasks)
        /\ result[1].processed_items =
              BreakdownCount(result[1].sources_breakdown, "twitter")
              + BreakdownCount(result[1].sources_breakdown, "news")
              + BreakdownCount(result[1].sources_breakdown, "government")

C29_ReturnStep ==
    (pc = "save_alerts" /\ result' # <<>> /\ result'[1].status = "success") =>
        /\ result'[1].processed_items =
              Len(ItemsOf(results[1])) + Len(ItemsOf(results[2])) + Len(ItemsOf(results[3]))
        /\ \A i \in 1..3 :
              BreakdownCount(result'[1].sources_breakdown, Tasks[i]) = Len(ItemsOf(results[i]))

C29_SuccessCountsMatchStore == [](C29_Counts) /\ [][C29_ReturnStep]_vars

\* C29 witness: a second cycle has returned 'success' with 3 records and 1
\* alert, appended to the records and the alert of the first cycle.
C29_Witness ==
    /\ pc = "idle" /\ cycles = 2
    /\ result # <<>> /\ result[1].status = "success"
    /\ result[1].processed_items = 3 /\ result[1].alerts_generated = 1
    /\ Len(before[1].store) > 0 /\ Len(before[1].alerts_table) > 0
    /\ Len(store) = Len(before[1].store) + 3
    /\ Len(alerts_table) = Len(before[1].alerts_table) + 1

====
